---- MODULE Spec2Model ----
(***************************************************************************)
(* Compatibility negotiation of rust-landlock (src/src/compat.rs): the     *)
(* kernel ABI, the CompatState merge, the CompatLevel policy and the       *)
(* TryCompat protocol that threads them through the build steps.           *)
(***************************************************************************)
EXTENDS Integers, Sequences, FiniteSets, TLC

(* ------------------------------ bounds --------------------------------- *)

\* Longest recorded history of merges into one accumulated CompatState.
MaxMerges == 3

\* Greatest version number the version query is given to return.
MaxVersionReply == 9

\* Build steps a chain takes at most.
MaxSteps == 5

\* Build steps taken from an arbitrary Compat<T> value.
MaxAnySteps == 2

(* ------------------------------ values --------------------------------- *)

\* EOPNOTSUPP, the largest errno the version query is expected to fail with.
EOPNOTSUPP == 95

\* enum CompatState
CompatState == {"Init", "Full", "Partial", "No", "Dummy"}

\* enum CompatLevel, in declaration order (derive(PartialOrd, Ord)).
CompatLevel == {"BestEffort", "SoftRequirement", "HardRequirement"}

\* Option<CompatLevel>: "None" or Some(level), written as the level itself.
None == "None"

OptionCompatLevel == CompatLevel \cup {None}

\* derive(Ord) on CompatLevel: the rank of a variant is its position.
Rank(l) == IF l = "BestEffort" THEN 0 ELSE IF l = "SoftRequirement" THEN 1 ELSE 2

\* Ord::max on CompatLevel (returns the second argument when equal).
LevelMax(a, b) == IF Rank(b) >= Rank(a) THEN b ELSE a

\* enum ABI
ABI == {"Unsupported", "V1", "V2", "V3"}

\* Integers the version query of landlock_create_ruleset() may return to a
\* build chain: -ENOSYS, 0, the latest known version and a later one.
KernelReplies == {-38, 0, 3, 4}

\* An ABI::from that takes a version it does not know for no support.
ABI_from_unknown_unsupported(value) ==
    IF value <= 0 THEN "Unsupported"
    ELSE IF value = 1 THEN "V1"
    ELSE IF value = 2 THEN "V2"
    ELSE IF value = 3 THEN "V3"
    ELSE "Unsupported"

\* ABI::from(i32)
ABI_from(value) ==
    IF value <= 0 THEN "Unsupported"
    ELSE IF value = 1 THEN "V1"
    ELSE IF value = 2 THEN "V2"
    ELSE "V3"

(* --------------------------- CompatState::update ------------------------ *)

\* A merge in which the incoming value always wins.
update_last_wins(self, other) == other

\* A merge that forgets Dummy when a later step is fully supported.
update_dummy_recovers(self, other) ==
    IF self = "Init" THEN other
    ELSE IF self = "Dummy" THEN (IF other = "Full" THEN "Partial" ELSE "Dummy")
    ELSE IF other = "Dummy" THEN "Dummy"
    ELSE IF self = "No" /\ other = "No" THEN "No"
    ELSE IF self = "Full" /\ other = "Full" THEN "Full"
    ELSE "Partial"

\* A merge in which a fully supported step restores Full after Partial.
update_full_recovers(self, other) ==
    IF self = "Init" THEN other
    ELSE IF self = "Dummy" THEN "Dummy"
    ELSE IF other = "Dummy" THEN "Dummy"
    ELSE IF self = "No" /\ other = "No" THEN "No"
    ELSE IF other = "Full" /\ self \in {"Full", "Partial"} THEN "Full"
    ELSE "Partial"

\* A merge in which No followed by a supported step keeps the later value.
update_no_overwritten(self, other) ==
    IF self = "Init" THEN other
    ELSE IF self = "Dummy" THEN "Dummy"
    ELSE IF other = "Dummy" THEN "Dummy"
    ELSE IF self = "No" THEN other
    ELSE IF self = "Full" /\ other = "Full" THEN "Full"
    ELSE "Partial"

\* A merge whose catch-all arm is tried before the (No, No) arm.
update_no_arm_shadowed(self, other) ==
    IF self = "Init" THEN other
    ELSE IF self = "Dummy" THEN "Dummy"
    ELSE IF other = "Dummy" THEN "Dummy"
    ELSE IF self = "Full" /\ other = "Full" THEN "Full"
    ELSE "Partial"

\* A merge in which an incoming Dummy leaves the accumulated value as it is.
update_dummy_ignored(self, other) ==
    IF self = "Init" THEN other
    ELSE IF self = "Dummy" THEN "Dummy"
    ELSE IF other = "Dummy" THEN self
    ELSE IF self = "No" /\ other = "No" THEN "No"
    ELSE IF self = "Full" /\ other = "Full" THEN "Full"
    ELSE "Partial"

\* CompatState::update: the match arms in source order, first match wins.
update(self, other) ==
    IF self = "Init" THEN other
    ELSE IF self = "Dummy" THEN "Dummy"
    ELSE IF other = "Dummy" THEN "Dummy"
    ELSE IF self = "No" /\ other = "No" THEN "No"
    ELSE IF self = "Full" /\ other = "Full" THEN "Full"
    ELSE "Partial"

(* ------------------------------ CompatLevel ----------------------------- *)

\* impl From<Option<CompatLevel>> for CompatLevel
CompatLevel_from(opt) == IF opt = None THEN "BestEffort" ELSE opt

\* A tailored level in which the object's own level replaces the parent's.
tailored_own_overrides(own, parent_level) ==
    IF own = None THEN parent_level ELSE own

\* A tailored level that is the parent's, whatever the object's own level.
tailored_parent_only(own, parent_level) == parent_level

\* TailoredCompatLevel for T: Compatible; parent_level is already a level.
tailored_compat_level(own, parent_level) ==
    IF own = None THEN parent_level ELSE LevelMax(parent_level, own)

(* ----------------------- negotiated objects ----------------------------- *)

\* What an object's own evaluation, try_compat_inner(), reports.
InnerKind == {"Full", "Partial", "No", "Err"}

\* An object without children: its own level, if set, and what its
\* evaluation against the ABI reports.
Leaf(id) ==
    [id : {id}, level : OptionCompatLevel, inner : InnerKind, children : {<<>>}]

\* An object with one child, as PathBeneath with its allowed_access.
Parent(id, cid) ==
    {[id |-> id, level |-> l, inner |-> k, children |-> <<c>>] :
        l \in OptionCompatLevel, k \in InnerKind, c \in Leaf(cid)}

\* The objects handed to a build step.
Objects == Leaf("self") \cup Parent("self", "child")

NoErr == [at |-> "none", why |-> "none"]

NoVal == [of |-> "none", adjusted |-> FALSE]

\* Result<Option<Self>, CompatError<A>>
RetSome(v) == [kind |-> "Some", val |-> v, err |-> NoErr]

RetNone == [kind |-> "None", val |-> NoVal, err |-> NoErr]

RetErr(e) == [kind |-> "Err", val |-> NoVal, err |-> e]

NoRet == [kind |-> "Unit", val |-> NoVal, err |-> NoErr]

\* try_compat_inner(self, abi): Ok(Full(v)), Ok(Partial(v, e)), Ok(No(e)) or
\* Err(e).  The trait leaves it to each object; the object's inner field is
\* what it reports, v is the object (adjusted when Partial) and e names the
\* object and the reason.
try_compat_inner(self, abi) ==
    [tag |-> self.inner,
     val |-> IF self.inner = "Full" THEN [of |-> self.id, adjusted |-> FALSE]
             ELSE IF self.inner = "Partial" THEN [of |-> self.id, adjusted |-> TRUE]
             ELSE NoVal,
     err |-> IF self.inner = "Full" THEN NoErr
             ELSE [at |-> self.id, why |-> self.inner]]

(* --------------------------- TryCompat::try_compat ---------------------- *)

\* What one arm of try_compat does: the value it merges into compat_state
\* and the result it returns.
Arm(m, r) == [merge |-> m, ret |-> r]

\* A Full arm that records the step as partially supported and drops it.
arm_full_dropped(res) == Arm("Partial", RetNone)

\* Ok(CompatResult::Full(new_self)) arm.
arm_full(res) == Arm("Full", RetSome(res.val))

\* A Partial arm whose HardRequirement case drops the object silently.
arm_partial_hard_silent(res, compat_level) ==
    IF compat_level = "BestEffort" THEN Arm("Partial", RetSome(res.val))
    ELSE Arm("Dummy", RetNone)

\* A Partial arm whose BestEffort case drops the adjusted object.
arm_partial_best_effort_drops(res, compat_level) ==
    IF compat_level = "BestEffort" THEN Arm("Partial", RetNone)
    ELSE IF compat_level = "SoftRequirement" THEN Arm("Dummy", RetNone)
    ELSE Arm("Dummy", RetErr(res.err))

\* Ok(CompatResult::Partial(new_self, error)) arm, by compat_level.
arm_partial(res, compat_level) ==
    IF compat_level = "BestEffort" THEN Arm("Partial", RetSome(res.val))
    ELSE IF compat_level = "SoftRequirement" THEN Arm("Dummy", RetNone)
    ELSE Arm("Dummy", RetErr(res.err))

\* A No arm whose SoftRequirement case is handled as BestEffort.
arm_no_soft_as_best_effort(res, compat_level) ==
    IF compat_level \in {"BestEffort", "SoftRequirement"} THEN Arm("No", RetNone)
    ELSE Arm("Dummy", RetErr(res.err))

\* Ok(CompatResult::No(error)) arm, by compat_level.
arm_no(res, compat_level) ==
    IF compat_level = "BestEffort" THEN Arm("No", RetNone)
    ELSE IF compat_level = "SoftRequirement" THEN Arm("Dummy", RetNone)
    ELSE Arm("Dummy", RetErr(res.err))

\* An Err arm that takes the failure for an unsupported request.
arm_err_as_unsupported(res) == Arm("No", RetNone)

\* Err(e) arm: the safeguard.
arm_err(res) == Arm("Dummy", RetErr(res.err))

\* The match on new_self.try_compat_inner(abi).
match_inner(res, compat_level) ==
    IF res.tag = "Full" THEN arm_full(res)
    ELSE IF res.tag = "Partial" THEN arm_partial(res, compat_level)
    ELSE IF res.tag = "No" THEN arm_no(res, compat_level)
    ELSE arm_err(res)

\* The outcome of a negotiation: the result, the accumulated state, the
\* values merged in order and the states passed through, and for the object
\* itself its effective level, what its evaluation reported ("NotEvaluated"
\* when it was not reached), what was merged for it and into which state, and
\* what became of each child that was negotiated.
Outcome(r, st, ms, ss, eff, inner, merge, before, kids) ==
    [ret |-> r, state |-> st, merged |-> ms, states |-> ss,
     eff |-> eff, inner |-> inner, merge |-> merge, before |-> before,
     kids |-> kids]

\* What became of a child: its own level, the level it was handed, the level
\* it was negotiated under, what its evaluation reported and what it returned.
Kid(child, parent_level, c) ==
    [own |-> child.level, parent |-> parent_level, eff |-> c.eff,
     inner |-> c.inner, kind |-> c.ret.kind]

\* The value of an expression, evaluated once: the element of a singleton.
The(S) == CHOOSE x \in S : TRUE

RECURSIVE try_compat(_, _, _, _)

RECURSIVE children_from(_, _, _, _, _, _, _, _)

\* What try_compat_children() hands back: the result and the accumulated state.
Children(r, st, ms, ss, ks) ==
    [ret |-> r, state |-> st, merged |-> ms, states |-> ss, kids |-> ks]

\* After child i gave c: go on with the next child when c is Some, else stop.
child_done(self, i, abi, level, ms, ss, ks, c) ==
    IF c.ret.kind = "Some"
    THEN children_from(self, i + 1, abi, level, c.state,
                       ms \o c.merged, ss \o c.states,
                       Append(ks, Kid(self.children[i], level, c)))
    ELSE Children(c.ret, c.state, ms \o c.merged, ss \o c.states,
                  Append(ks, Kid(self.children[i], level, c)))

\* The children of self from the i-th on, each negotiated under level with the
\* same compat_state; stops at the first child that yields an error or nothing.
children_from(self, i, abi, level, st, ms, ss, ks) ==
    IF i > Len(self.children)
    THEN Children(RetSome([of |-> self.id, adjusted |-> FALSE]), st, ms, ss, ks)
    ELSE The({child_done(self, i, abi, level, ms, ss, ks, c) :
                c \in {try_compat(self.children[i], abi, level, st)}})

\* try_compat_children(): Ok(Some(self)) for an object without children;
\* otherwise each child.try_compat() with the object's tailored level.
try_compat_children(self, abi, parent_level, st) ==
    IF self.children = <<>>
    THEN Children(RetSome([of |-> self.id, adjusted |-> FALSE]), st, <<>>, <<>>,
                  <<>>)
    ELSE children_from(self, 1, abi,
                       tailored_compat_level(self.level, parent_level),
                       st, <<>>, <<>>, <<>>)

\* The object's own evaluation, once its children gave Some: the arm taken and
\* the merge of its value into compat_state.
evaluate_self(ch, compat_level, res, arm) ==
    Outcome(arm.ret, update(ch.state, arm.merge), Append(ch.merged, arm.merge),
            Append(ch.states, update(ch.state, arm.merge)),
            compat_level, res.tag, arm.merge, ch.state, ch.kids)

\* A try_compat that goes on to the object itself when its children gave None.
after_children_evaluates_anyway(self, abi, compat_level, ch) ==
    IF ch.ret.kind = "Err"
    THEN Outcome(ch.ret, ch.state, ch.merged, ch.states,
                 compat_level, "NotEvaluated", "none", ch.state, ch.kids)
    ELSE The({evaluate_self(ch, compat_level, res, match_inner(res, compat_level)) :
                res \in {try_compat_inner(self, abi)}})

\* try_compat() after try_compat_children() gave ch: `?` returns its error,
\* None returns Ok(None), Some(n) goes on to n.try_compat_inner(abi).
after_children(self, abi, compat_level, ch) ==
    IF ch.ret.kind = "Err"
    THEN Outcome(ch.ret, ch.state, ch.merged, ch.states,
                 compat_level, "NotEvaluated", "none", ch.state, ch.kids)
    ELSE IF ch.ret.kind = "None"
    THEN Outcome(RetNone, ch.state, ch.merged, ch.states,
                 compat_level, "NotEvaluated", "none", ch.state, ch.kids)
    ELSE The({evaluate_self(ch, compat_level, res, match_inner(res, compat_level)) :
                res \in {try_compat_inner(self, abi)}})

\* try_compat(self, abi, parent_level, compat_state)
try_compat(self, abi, parent_level, st) ==
    The({after_children(self, abi, compat_level, ch) :
            <<compat_level, ch>> \in
                {<<l, try_compat_children(self, abi, l, st)>> :
                    l \in {tailored_compat_level(self.level,
                                                 CompatLevel_from(parent_level))}}})

(* ================= the builder chain (src/src/lib.rs) =================== *)

\* enum CompatStatus
CompatStatus == {"Full", "Partial"}

\* enum ErrorThreshold
ErrorThreshold == {"Runtime", "Incompatible", "PartiallyCompatible"}

\* Option<Error>::None
NoError == "none"

\* enum LastCall; err is the Error of RuntimeError(Error).
LastCall(tag, err) == [tag |-> tag, err |-> err]

FullSuccess == LastCall("FullSuccess", NoError)

PartialSuccess == LastCall("PartialSuccess", NoError)

Unsupported == LastCall("Unsupported", NoError)

Fake == LastCall("Fake", NoError)

RuntimeError(e) == LastCall("RuntimeError", e)

\* impl From<CompatStatus> for LastCall
LastCall_from(status) == IF status = "Full" THEN FullSuccess ELSE PartialSuccess

\* Option<CompatBuild<T>>: None, or Some(CompatBuild { status, data }).
NoBuild == [some |-> FALSE, status |-> "none", data |-> "none"]

SomeBuild(status, data) == [some |-> TRUE, status |-> status, data |-> data]

\* struct CompatObject<T>, wrapped by Compat<T>
CompatObject(l, prev, build) == [last |-> l, prev_error |-> prev, build |-> build]

\* Compat::new(status, data)
Compat_new(status, data) ==
    CompatObject(LastCall_from(status), NoError, SomeBuild(status, data))

\* A set_last_call_status that keeps the first error it saved.
set_last_call_status_keeps_first(self, status) ==
    [last |-> status,
     prev_error |-> IF self.last.tag = "RuntimeError" /\ self.prev_error = NoError
                    THEN self.last.err ELSE self.prev_error,
     build |-> IF status.tag # "FullSuccess" /\ self.build.some
               THEN [self.build EXCEPT !.status = "Partial"]
               ELSE self.build]

\* A set_last_call_status that leaves the build status as it is.
set_last_call_status_no_downgrade(self, status) ==
    [last |-> status,
     prev_error |-> IF self.last.tag = "RuntimeError"
                    THEN self.last.err ELSE self.prev_error,
     build |-> self.build]

\* A set_last_call_status that downgrades the build status on every status.
set_last_call_status_always_downgrades(self, status) ==
    [last |-> status,
     prev_error |-> IF self.last.tag = "RuntimeError"
                    THEN self.last.err ELSE self.prev_error,
     build |-> IF self.build.some
               THEN [self.build EXCEPT !.status = "Partial"] ELSE self.build]

\* Compat::set_last_call_status(status): downgrades the build status on
\* anything but FullSuccess, and saves the error of the status it replaces.
set_last_call_status(self, status) ==
    [last |-> status,
     prev_error |-> IF self.last.tag = "RuntimeError"
                    THEN self.last.err ELSE self.prev_error,
     build |-> IF status.tag # "FullSuccess" /\ self.build.some
               THEN [self.build EXCEPT !.status = "Partial"]
               ELSE self.build]

\* Compat::get_last_error()
get_last_error(self) ==
    IF self.last.tag = "RuntimeError" THEN self.last.err ELSE self.prev_error

\* Compat::merge(build)
merge(self, build) == CompatObject(self.last, self.prev_error, build)

\* Result<Compat<T>, Error>
Ok(v) == [ok |-> TRUE, value |-> v, err |-> NoError]

Err(e) == [ok |-> FALSE, value |-> "none", err |-> e]

\* An into_result for which a later step clears nothing: it reports the
\* saved error too.
into_result_reports_saved(self, threshold) ==
    IF get_last_error(self) # NoError THEN Err(get_last_error(self)) ELSE Ok(self)

\* An into_result whose Ok hands back the chain without its saved error.
into_result_forgets_error(self, threshold) ==
    IF self.last.tag = "FullSuccess" THEN Ok([self EXCEPT !.prev_error = NoError])
    ELSE IF self.last.tag = "PartialSuccess"
    THEN (IF threshold = "PartiallyCompatible"
          THEN Err("InvalidData: Partial compatibility")
          ELSE Ok([self EXCEPT !.prev_error = NoError]))
    ELSE IF self.last.tag \in {"Unsupported", "Fake"}
    THEN (IF threshold \in {"PartiallyCompatible", "Incompatible"}
          THEN Err("InvalidData: Incompatibility")
          ELSE Ok([self EXCEPT !.prev_error = NoError]))
    ELSE Err(self.last.err)

\* An into_result that takes Unsupported and Fake for a partial success.
into_result_unsupported_is_partial(self, threshold) ==
    IF self.last.tag = "FullSuccess" THEN Ok(self)
    ELSE IF self.last.tag \in {"PartialSuccess", "Unsupported", "Fake"}
    THEN (IF threshold = "PartiallyCompatible"
          THEN Err("InvalidData: Partial compatibility") ELSE Ok(self))
    ELSE Err(self.last.err)

\* Compat::into_result(threshold)
into_result(self, threshold) ==
    IF self.last.tag = "FullSuccess" THEN Ok(self)
    ELSE IF self.last.tag = "PartialSuccess"
    THEN (IF threshold = "PartiallyCompatible"
          THEN Err("InvalidData: Partial compatibility") ELSE Ok(self))
    ELSE IF self.last.tag \in {"Unsupported", "Fake"}
    THEN (IF threshold \in {"PartiallyCompatible", "Incompatible"}
          THEN Err("InvalidData: Incompatibility") ELSE Ok(self))
    ELSE Err(self.last.err)

\* enum RestrictionStatus; err is the Option<Error> of the last two variants.
FullyRestricted == [tag |-> "FullyRestricted", err |-> NoError]

PartiallyRestricted(err) == [tag |-> "PartiallyRestricted", err |-> err]

Unrestricted(err) == [tag |-> "Unrestricted", err |-> err]

\* A RestrictionStatus::into_result for which the error of PartiallyRestricted
\* is no failure.
RestrictionStatus_into_result_partial_ok(self) ==
    IF self.tag \in {"FullyRestricted", "PartiallyRestricted"} THEN Ok("unit")
    ELSE IF self.err = NoError THEN Ok("unit") ELSE Err(self.err)

\* RestrictionStatus::into_result()
RestrictionStatus_into_result(self) ==
    IF self.tag = "FullyRestricted" THEN Ok("unit")
    ELSE IF self.err = NoError THEN Ok("unit") ELSE Err(self.err)

(* --------------------- the chain's build methods ------------------------ *)

\* A raw system call returns a code and, on failure, the OS error.
SysOk(ret) == [ret |-> ret, errno |-> NoError]

SysErr(errno) == [ret |-> 0 - 1, errno |-> errno]

\* AccessFs values the callers of the chain pass.
AccessFs == {"ALL", "EXECUTE"}

\* File descriptors a PathBeneath parent may wrap: an open one, a closed one.
ParentFds == {4, 0 - 1}

\* What a step of the chain gives back: the chain and the syscalls it made.
Step(chain, calls) == [chain |-> chain, calls |-> calls]

\* RulesetAttr::new()
RulesetAttr_new == Compat_new("Full", [handled_fs |-> "ALL"])

\* PathBeneath::new(parent)
PathBeneath_new(parent) ==
    Compat_new("Full", [allowed_access |-> "ALL", parent_fd |-> parent])

\* Compat<PathBeneath>::allow_access()
allow_access(self, allowed) ==
    IF ~self.build.some
    THEN set_last_call_status(self, Fake)
    ELSE set_last_call_status(
             [self EXCEPT !.build.data.allowed_access = allowed], FullSuccess)

\* Compat<RulesetAttr>::handle_fs()
handle_fs(self, access) ==
    IF ~self.build.some
    THEN set_last_call_status(self, Fake)
    ELSE set_last_call_status(
             [self EXCEPT !.build.data.handled_fs = access], FullSuccess)

\* Ruleset::new(): created is what landlock_create_ruleset() returned.
Ruleset_new(attribute, created) ==
    IF created.ret >= 0
    THEN Ok([fd |-> created.ret, no_new_privs |-> TRUE])
    ELSE Err(created.errno)

create_keeps_payload(self, created) ==
    Step(set_last_call_status(
             merge(self, SomeBuild(self.build.status,
                                   [fd |-> 3, no_new_privs |-> TRUE])),
             IF created.ret >= 0 THEN FullSuccess
             ELSE RuntimeError(created.errno)),
         <<"landlock_create_ruleset">>)

\* Compat<RulesetAttr>::create()
create(self, created) ==
    IF ~self.build.some
    THEN Step(set_last_call_status(merge(self, NoBuild), Fake), <<>>)
    ELSE IF Ruleset_new(self.build.data, created).ok
    THEN Step(set_last_call_status(
                  merge(self, SomeBuild(self.build.status,
                                        Ruleset_new(self.build.data, created).value)),
                  FullSuccess),
              <<"landlock_create_ruleset">>)
    ELSE Step(set_last_call_status(
                  merge(self, NoBuild),
                  RuntimeError(Ruleset_new(self.build.data, created).err)),
              <<"landlock_create_ruleset">>)

add_rule_ignores_failure(self, rule, added) ==
    IF ~self.build.some
    THEN Step(set_last_call_status(self, Fake), <<>>)
    ELSE IF ~rule.build.some
    THEN Step(set_last_call_status(self, Unsupported), <<>>)
    ELSE Step(set_last_call_status(self, LastCall_from(rule.build.status)),
              <<"landlock_add_rule">>)

\* Compat<Ruleset>::add_rule(): added is what landlock_add_rule() returned.
add_rule(self, rule, added) ==
    IF ~self.build.some
    THEN Step(set_last_call_status(self, Fake), <<>>)
    ELSE IF ~rule.build.some
    THEN Step(set_last_call_status(self, Unsupported), <<>>)
    ELSE Step(set_last_call_status(
                  self,
                  IF added.ret = 0 THEN LastCall_from(rule.build.status)
                  ELSE RuntimeError(added.errno)),
              <<"landlock_add_rule">>)

\* Compat<Ruleset>::set_no_new_privs()
set_no_new_privs(self, no_new_privs) ==
    IF ~self.build.some
    THEN set_last_call_status(self, Fake)
    ELSE set_last_call_status(
             [self EXCEPT !.build.data.no_new_privs = no_new_privs], FullSuccess)

\* What restrict_self() gives back: the status and the syscalls it made.
Restricted(status, calls) == [status |-> status, calls |-> calls]

restrict_self_ignores_prctl(self, privs, enforced) ==
    IF ~self.build.some
    THEN Restricted(Unrestricted(get_last_error(self)), <<>>)
    ELSE Restricted(
             IF enforced.ret # 0 THEN Unrestricted(enforced.errno)
             ELSE IF self.build.status = "Full" THEN FullyRestricted
             ELSE PartiallyRestricted(get_last_error(self)),
             (IF self.build.data.no_new_privs THEN <<"prctl">> ELSE <<>>)
                 \o <<"landlock_restrict_self">>)

\* Compat<Ruleset>::restrict_self(): privs is what prctl() returned, enforced
\* what landlock_restrict_self() returned.
restrict_self(self, privs, enforced) ==
    IF ~self.build.some
    THEN Restricted(Unrestricted(get_last_error(self)), <<>>)
    ELSE IF self.build.data.no_new_privs /\ privs.ret # 0
    THEN Restricted(Unrestricted(privs.errno), <<"prctl">>)
    ELSE Restricted(
             IF enforced.ret # 0 THEN Unrestricted(enforced.errno)
             ELSE IF self.build.status = "Full" THEN FullyRestricted
             ELSE PartiallyRestricted(get_last_error(self)),
             (IF self.build.data.no_new_privs THEN <<"prctl">> ELSE <<>>)
                 \o <<"landlock_restrict_self">>)

\* A Ruleset that goes away with its fd left open.
drop_leaks(self, kind) == <<>>

\* impl Drop for Ruleset: close(fd), when a present Ruleset payload goes away.
drop(self, kind) ==
    IF kind = "Ruleset" /\ self.build.some THEN <<"close">> ELSE <<>>

(* ------------------------------- state ---------------------------------- *)

VARIABLES
    abi,     \* Compatibility.abi
    level,   \* Compatibility.level : Option<CompatLevel>
    state,   \* Compatibility.state : CompatState
    start,   \* history: the state the accumulation started from
    merges,  \* history: the values merged so far, in order
    seen,    \* history: the accumulated states passed through, start included
    last,    \* history: the last operation, its inputs and its result
    dropped, \* history: a step under SoftRequirement turned out Partial
    chain,   \* the builder chain: Compat<RulesetAttr>, then Compat<Ruleset>
    kind,    \* the chain's payload type, "none" once the chain was consumed
    rule,    \* the Compat<PathBeneath> being built: <<>> or <<rule>>
    steps,   \* history: the last-call status of each build step of the chain
    done     \* history: the last call on the chain, its inputs and result

vars == <<abi, level, state, start, merges, seen, last, dropped,
          chain, kind, rule, steps, done>>

chainVars == <<chain, kind, rule, steps, done>>

compatVars == <<level, state, start, merges, seen, last, dropped>>

\* No call on the chain yet.
NoDone ==
    [op |-> "none", arg |-> "none", ok |-> TRUE, err |-> NoError,
     status |-> [tag |-> "none", err |-> NoError], calls |-> <<>>,
     reply |-> SysOk(0), privs |-> SysOk(0), enforced |-> SysOk(0)]

\* The chain as RulesetAttr::new() returns it, no rule in the making.
InitChain ==
    /\ chain = RulesetAttr_new
    /\ kind = "RulesetAttr"
    /\ rule = <<>>
    /\ steps = <<>>
    /\ done = NoDone

Range(s) == {s[i] : i \in 1..Len(s)}

\* No operation yet.
NoCall ==
    [op |-> "none", own |-> None, eff |-> "BestEffort", inner |-> "NotEvaluated",
     merge |-> "none", before |-> "none", pre |-> "none", other |-> "none",
     nchildren |-> 0, kids |-> <<>>, value |-> 0, ret |-> NoRet]

\* A Compatibility that starts from Init whatever the ABI.
Compatibility_from_always_init(a) ==
    [abi |-> a, level |-> None, state |-> "Init"]

\* impl From<ABI> for Compatibility
Compatibility_from(a) ==
    [abi |-> a, level |-> None,
     state |-> IF a = "Unsupported" THEN "No" ELSE "Init"]

\* Compatibility::new(): ABI::new_current().into(), for each reply the version
\* query may give.
Init ==
    \E reply \in KernelReplies :
        LET c == Compatibility_from(ABI_from(reply))
        IN  /\ abi = c.abi
            /\ level = c.level
            /\ state = c.state
            /\ start = c.state
            /\ merges = <<>>
            /\ seen = {c.state}
            /\ last = NoCall
            /\ dropped = FALSE
            /\ InitChain

(* ------------------------------ operations ------------------------------ *)

\* Compatible::set_compatibility(level)
set_compatibility(l) ==
    /\ level' = l
    /\ last' = [NoCall EXCEPT !.op = "set_compatibility"]
    /\ UNCHANGED <<abi, state, start, merges, seen, dropped>>
    /\ UNCHANGED chainVars

\* A translation of best_effort with the two levels exchanged.
best_effort_level_exchanged(best_effort) ==
    IF best_effort THEN "HardRequirement" ELSE "BestEffort"

\* The level set_best_effort() hands to set_compatibility().
best_effort_level(best_effort) ==
    IF best_effort THEN "BestEffort" ELSE "HardRequirement"

\* Compatible::set_best_effort(best_effort)
set_best_effort(best_effort) ==
    /\ level' = best_effort_level(best_effort)
    /\ last' = [NoCall EXCEPT !.op = "set_best_effort"]
    /\ UNCHANGED <<abi, state, start, merges, seen, dropped>>
    /\ UNCHANGED chainVars

\* Compatibility::update(state)
Compatibility_update(other) ==
    /\ Len(merges) < MaxMerges
    /\ state' = update(state, other)
    /\ merges' = Append(merges, other)
    /\ seen' = seen \cup {state'}
    /\ last' = [NoCall EXCEPT !.op = "update", !.pre = state, !.other = other]
    /\ UNCHANGED <<abi, level, start, dropped>>
    /\ UNCHANGED chainVars

\* A build step: object.try_compat(compat.abi(), compat.level, &mut compat.state)
negotiate(object) ==
    /\ Len(merges) < MaxMerges
    /\ \E o \in {try_compat(object, abi, level, state)} :
        /\ Len(merges) + Len(o.merged) <= MaxMerges
        /\ state' = o.state
        /\ merges' = merges \o o.merged
        /\ seen' = seen \cup Range(o.states)
        /\ last' = [op |-> "try_compat", own |-> object.level, eff |-> o.eff,
                    inner |-> o.inner, merge |-> o.merge, before |-> o.before,
                    pre |-> state, other |-> "none",
                    nchildren |-> Len(object.children), kids |-> o.kids,
                    value |-> 0,
                    ret |-> o.ret]
        /\ dropped' = (dropped \/ (o.eff = "SoftRequirement" /\ o.inner = "Partial"))
        /\ UNCHANGED <<abi, level, start>>
        /\ UNCHANGED chainVars

\* The values a build step merges: Init is only ever a starting state.
StepStates == CompatState \ {"Init"}

Next ==
    \/ \E l \in CompatLevel : set_compatibility(l)
    \/ \E b \in BOOLEAN : set_best_effort(b)
    \/ \E s \in StepStates : Compatibility_update(s)
    \/ \E object \in Objects : negotiate(object)

Spec == Init /\ [][Next]_vars

(* ------------- CompatState::update as a function of its inputs ---------- *)

\* Any CompatState as the current value; the ABI plays no part in the merge.
InitUpdate ==
    /\ abi = "V3"
    /\ level = None
    /\ state \in CompatState
    /\ start = state
    /\ merges = <<>>
    /\ seen = {state}
    /\ last = NoCall
    /\ dropped = FALSE
    /\ InitChain

\* Any CompatState as the incoming value.
NextUpdate == \E other \in CompatState : Compatibility_update(other)

SpecUpdate == InitUpdate /\ [][NextUpdate]_vars

(* ----------------- ABI::from as a function of its input ----------------- *)

\* Every integer the version query may read back: minus an errno, 0, a known
\* version or a later one.
VersionReplies == (0 - EOPNOTSUPP)..MaxVersionReply

\* ABI::new_current(): ABI::from() of what the version query returned.
ABI_new_current(value) ==
    /\ abi' = ABI_from(value)
    /\ last' = [NoCall EXCEPT !.op = "new_current", !.value = value]
    /\ UNCHANGED <<level, state, start, merges, seen, dropped>>
    /\ UNCHANGED chainVars

\* Before the first query.
InitABI ==
    /\ abi = "Unsupported"
    /\ level = None
    /\ state = "Init"
    /\ start = "Init"
    /\ merges = <<>>
    /\ seen = {"Init"}
    /\ last = NoCall
    /\ dropped = FALSE
    /\ InitChain

NextABI == \E value \in VersionReplies : ABI_new_current(value)

SpecABI == InitABI /\ [][NextABI]_vars

(* ------------------- the builder chain, step by step -------------------- *)

\* What the kernel may answer to landlock_create_ruleset(): without Landlock
\* the syscall is missing or disabled.
CreateReplies(a) ==
    IF a = "Unsupported"
    THEN {SysErr("ENOSYS"), SysErr("EOPNOTSUPP")}
    ELSE {SysOk(3), SysErr("ENOMEM")}

\* What the kernel may answer to landlock_add_rule(): a closed parent_fd is
\* refused, an open one may still be of the wrong type.
AddRuleReplies(r) ==
    IF r = <<>> THEN {}
    ELSE IF r[1].build.some /\ r[1].build.data.parent_fd < 0
    THEN {SysErr("EBADF")}
    ELSE {SysOk(0), SysErr("EBADFD")}

\* What prctl(PR_SET_NO_NEW_PRIVS) may answer.
PrctlReplies == {SysOk(0), SysErr("EINVAL")}

\* What landlock_restrict_self() may answer.
RestrictReplies == {SysOk(0), SysErr("EPERM")}

\* A build step of the chain ended: its status joins the history.
Stepped(op, arg, calls, reply) ==
    /\ steps' = Append(steps, chain'.last)
    /\ done' = [NoDone EXCEPT !.op = op, !.arg = arg, !.calls = calls,
                              !.reply = reply]

call_handle_fs(access) ==
    /\ kind = "RulesetAttr"
    /\ Len(steps) < MaxSteps
    /\ chain' = handle_fs(chain, access)
    /\ Stepped("handle_fs", access, <<>>, SysOk(0))
    /\ UNCHANGED <<abi, kind, rule>>
    /\ UNCHANGED compatVars

call_create(created) ==
    /\ kind = "RulesetAttr"
    /\ Len(steps) < MaxSteps
    /\ chain' = create(chain, created).chain
    /\ kind' = "Ruleset"
    /\ Stepped("create", "none", create(chain, created).calls, created)
    /\ UNCHANGED <<abi, rule>>
    /\ UNCHANGED compatVars

call_set_no_new_privs(no_new_privs) ==
    /\ kind = "Ruleset"
    /\ Len(steps) < MaxSteps
    /\ chain' = set_no_new_privs(chain, no_new_privs)
    /\ Stepped("set_no_new_privs", "none", <<>>, SysOk(0))
    /\ UNCHANGED <<abi, kind, rule>>
    /\ UNCHANGED compatVars

call_PathBeneath_new(parent) ==
    /\ kind # "none"
    /\ rule = <<>>
    /\ rule' = <<PathBeneath_new(parent)>>
    /\ done' = [NoDone EXCEPT !.op = "PathBeneath_new"]
    /\ UNCHANGED <<abi, chain, kind, steps>>
    /\ UNCHANGED compatVars

call_allow_access(allowed) ==
    /\ kind # "none"
    /\ rule # <<>>
    /\ rule' = <<allow_access(rule[1], allowed)>>
    /\ done' = [NoDone EXCEPT !.op = "allow_access", !.arg = allowed]
    /\ UNCHANGED <<abi, chain, kind, steps>>
    /\ UNCHANGED compatVars

\* add_rule() consumes the rule.
call_add_rule(added) ==
    /\ kind = "Ruleset"
    /\ rule # <<>>
    /\ Len(steps) < MaxSteps
    /\ chain' = add_rule(chain, rule[1], added).chain
    /\ rule' = <<>>
    /\ Stepped("add_rule", "none", add_rule(chain, rule[1], added).calls, added)
    /\ UNCHANGED <<abi, kind>>
    /\ UNCHANGED compatVars

\* Compat<T>::into_result() on the chain: the caller goes on with the value
\* of Ok, Err drops the chain.
call_into_result(threshold) ==
    /\ kind # "none"
    /\ done' = [NoDone EXCEPT !.op = "into_result", !.arg = threshold,
                              !.ok = into_result(chain, threshold).ok,
                              !.err = into_result(chain, threshold).err,
                              !.calls = IF into_result(chain, threshold).ok
                                        THEN <<>> ELSE drop(chain, kind)]
    /\ kind' = IF into_result(chain, threshold).ok THEN kind ELSE "none"
    /\ chain' = IF into_result(chain, threshold).ok
                THEN into_result(chain, threshold).value ELSE chain
    /\ UNCHANGED <<abi, rule, steps>>
    /\ UNCHANGED compatVars

\* Compat<T>::into_result() on the rule in the making; with `?` an Err leaves
\* the caller, which drops the chain as well.
call_rule_into_result(threshold) ==
    /\ kind # "none"
    /\ rule # <<>>
    /\ done' = [NoDone EXCEPT !.op = "rule_into_result", !.arg = threshold,
                              !.ok = into_result(rule[1], threshold).ok,
                              !.err = into_result(rule[1], threshold).err,
                              !.calls = IF into_result(rule[1], threshold).ok
                                        THEN <<>> ELSE drop(chain, kind)]
    /\ kind' = IF into_result(rule[1], threshold).ok THEN kind ELSE "none"
    /\ rule' = IF into_result(rule[1], threshold).ok
               THEN <<into_result(rule[1], threshold).value>> ELSE <<>>
    /\ UNCHANGED <<abi, chain, steps>>
    /\ UNCHANGED compatVars

\* restrict_self() consumes the chain; the Ruleset is dropped on return.
call_restrict_self(privs, enforced) ==
    /\ kind = "Ruleset"
    /\ done' = [NoDone EXCEPT !.op = "restrict_self",
                              !.status = restrict_self(chain, privs, enforced).status,
                              !.calls = restrict_self(chain, privs, enforced).calls
                                            \o drop(chain, kind),
                              !.privs = privs, !.enforced = enforced]
    /\ kind' = "none"
    /\ UNCHANGED <<abi, chain, rule, steps>>
    /\ UNCHANGED compatVars

\* RestrictionStatus::into_result() on what restrict_self() returned.
call_RestrictionStatus_into_result ==
    /\ done.op = "restrict_self"
    /\ done' = [done EXCEPT !.op = "RestrictionStatus_into_result",
                            !.ok = RestrictionStatus_into_result(done.status).ok,
                            !.err = RestrictionStatus_into_result(done.status).err]
    /\ UNCHANGED <<abi, chain, kind, rule, steps>>
    /\ UNCHANGED compatVars

NextChain ==
    \/ \E access \in AccessFs : call_handle_fs(access)
    \/ \E created \in CreateReplies(abi) : call_create(created)
    \/ \E no_new_privs \in BOOLEAN : call_set_no_new_privs(no_new_privs)
    \/ \E parent \in ParentFds : call_PathBeneath_new(parent)
    \/ \E allowed \in AccessFs : call_allow_access(allowed)
    \/ \E added \in AddRuleReplies(rule) : call_add_rule(added)
    \/ \E threshold \in ErrorThreshold : call_into_result(threshold)
    \/ \E threshold \in ErrorThreshold : call_rule_into_result(threshold)
    \/ \E privs \in PrctlReplies, enforced \in RestrictReplies :
           call_restrict_self(privs, enforced)
    \/ call_RestrictionStatus_into_result

SpecChain == Init /\ [][NextChain]_vars

(* -------------- the chain's methods on any Compat<T> value --------------- *)

\* OS errors a saved or a last-call RuntimeError may hold.
Errnos == {"EBADF", "ENOSYS"}

\* Every LastCall value.
LastCalls ==
    {FullSuccess, PartialSuccess, Unsupported, Fake}
        \cup {RuntimeError(e) : e \in Errnos}

\* Every Option<CompatBuild<T>> around a payload.
Builds(data) == {NoBuild} \cup {SomeBuild(s, data) : s \in CompatStatus}

\* Every CompatObject<T> around a payload.
CompatObjects(data) ==
    {CompatObject(l, prev, build) :
        l \in LastCalls, prev \in Errnos \cup {NoError}, build \in Builds(data)}

\* Any Compat<RulesetAttr> or Compat<Ruleset> as the chain, any
\* Compat<PathBeneath> as the rule in the making.
InitAny ==
    /\ abi = "V3"
    /\ level = None
    /\ state = "Init"
    /\ start = "Init"
    /\ merges = <<>>
    /\ seen = {"Init"}
    /\ last = NoCall
    /\ dropped = FALSE
    /\ kind \in {"RulesetAttr", "Ruleset"}
    /\ chain \in IF kind = "RulesetAttr"
                 THEN CompatObjects([handled_fs |-> "ALL"])
                 ELSE CompatObjects([fd |-> 3, no_new_privs |-> TRUE])
    /\ rule \in {<<r>> : r \in CompatObjects([allowed_access |-> "ALL",
                                              parent_fd |-> 4])}
    /\ steps = <<>>
    /\ done = NoDone

\* The value takes further build steps.
Fresh == Len(steps) < MaxAnySteps

\* The methods of the chain on that value, for MaxAnySteps build steps.
NextAny ==
    \/ Fresh /\ \E parent \in ParentFds : call_PathBeneath_new(parent)
    \/ Fresh /\ \E access \in AccessFs : call_handle_fs(access)
    \/ Fresh /\ \E created \in CreateReplies(abi) : call_create(created)
    \/ Fresh /\ \E no_new_privs \in BOOLEAN : call_set_no_new_privs(no_new_privs)
    \/ Fresh /\ \E allowed \in AccessFs : call_allow_access(allowed)
    \/ Fresh /\ \E added \in AddRuleReplies(rule) : call_add_rule(added)
    \/ Fresh /\ \E threshold \in ErrorThreshold : call_into_result(threshold)
    \/ Fresh /\ \E threshold \in ErrorThreshold : call_rule_into_result(threshold)
    \/ Fresh /\ \E privs \in PrctlReplies, enforced \in RestrictReplies :
                    call_restrict_self(privs, enforced)
    \/ call_RestrictionStatus_into_result

SpecAny == InitAny /\ [][NextAny]_vars

(* ============================== claims ================================== *)

\* The merge table as the specification words it.
MergeTable(current, incoming) ==
    CASE current = "Init" -> incoming
      [] current # "Init" /\ (current = "Dummy" \/ incoming = "Dummy") -> "Dummy"
      [] current = "No" /\ incoming = "No" -> "No"
      [] current = "Full" /\ incoming = "Full" -> "Full"
      [] OTHER -> "Partial"

\* C1: for every ordered pair (current, incoming) of CompatState values, the
\* state after update is the entry of the merge table: incoming when current
\* is Init, Dummy when either is Dummy, No for (No, No), Full for (Full, Full)
\* and Partial for every other pair.
C1_UpdateFollowsTable ==
    last.op = "update" => state = MergeTable(last.pre, last.other)

\* C1 witness: Init merged into Full, one of the "every other pair" entries.
C1_Witness ==
    /\ last.op = "update"
    /\ last.pre = "Full"
    /\ last.other = "Init"
    /\ state = "Partial"

\* C2: Dummy is irrecoverable: once the accumulated state has been Dummy, or a
\* Dummy value has been merged in, the state is Dummy after every later merge.
C2_DummyIrrecoverable ==
    ("Dummy" \in seen \/ "Dummy" \in Range(merges)) => state = "Dummy"

\* C2 witness: Dummy merged first into Full, then two more merges ending with
\* a fully supported one.
C2_Witness ==
    /\ start = "Full"
    /\ Len(merges) >= 3
    /\ merges[1] = "Dummy"
    /\ merges[3] = "Full"
    /\ state = "Dummy"

\* C3: Full is never recovered: once the accumulated state has been Partial,
\* No or Dummy, no later merge of any of the five values makes it Full.
C3_FullNeverRecovered ==
    seen \cap {"Partial", "No", "Dummy"} # {} => state # "Full"

\* C3 witness: Full degraded to Partial by No, then two fully supported merges.
C3_Witness ==
    /\ start = "Full"
    /\ merges = <<"No", "Full", "Full">>
    /\ state = "Partial"

RECURSIVE MergeAll(_, _)

\* The state after merging the values of seq, in order, into st.
MergeAll(st, seq) ==
    IF seq = <<>> THEN st ELSE MergeAll(update(st, Head(seq)), Tail(seq))

\* seq reordered by the permutation p of its indices.
Reordered(seq, p) == [i \in 1..Len(seq) |-> seq[p[i]]]

\* C4: starting from Init, or No on an unsupported kernel, merging the same
\* per-step outcomes (each Full, Partial, No or Dummy) in any other order
\* gives the accumulated state the chain has, for histories of any length.
C4_OrderIndependent ==
    (start \in {"Init", "No"} /\ Range(merges) \subseteq StepStates) =>
        \A p \in Permutations(1..Len(merges)) :
            MergeAll(start, Reordered(merges, p)) = state

\* C4 witness: three different outcomes merged, the last by a negotiation.
C4_Witness ==
    /\ start = "Init"
    /\ merges = <<"Full", "No", "Partial">>
    /\ last.op = "try_compat"
    /\ state = "Partial"

\* C5 as stated: for all 25 ordered pairs (a, b), update of a with b gives
\* what update of b with a gives.
C5_Commutative ==
    last.op = "update" => state = update(last.other, last.pre)

\* A pair that puts Init together with Full or with No.
InitWithFullOrNo(a, b) ==
    \/ a = "Init" /\ b \in {"Full", "No"}
    \/ b = "Init" /\ a \in {"Full", "No"}

\* C5 amended: for every ordered pair (a, b) other than the four that put
\* Init together with Full or with No, update of a with b gives what update
\* of b with a gives.
C5_CommutativeButInit ==
    (last.op = "update" /\ ~InitWithFullOrNo(last.pre, last.other)) =>
        state = update(last.other, last.pre)

\* C5 witness: No merged with Full; Full merged with No gives Partial too.
C5_Witness ==
    /\ last.op = "update"
    /\ last.pre = "No"
    /\ last.other = "Full"
    /\ state = "Partial"

\* The value an object of a build step hands back: itself, adjusted or not.
SelfValue(adjusted) == [of |-> "self", adjusted |-> adjusted]

\* The error the evaluation of a build step's object carries.
SelfError(why) == [at |-> "self", why |-> why]

\* The last operation was a negotiation whose object evaluated itself to
\* inner under the effective level eff.
Evaluated(eff, inner) ==
    /\ last.op = "try_compat"
    /\ last.eff = eff
    /\ last.inner = inner

\* C6: when the object's own evaluation reports Full, try_compat merges Full
\* into the accumulated state and returns the value without error, under
\* every effective level, HardRequirement included.
C6_FullIsReturned ==
    \A eff \in CompatLevel :
        Evaluated(eff, "Full") =>
            /\ last.merge = "Full"
            /\ state = update(last.before, "Full")
            /\ last.ret = RetSome(SelfValue(FALSE))

\* C6 witness: a fully supported object negotiated under HardRequirement.
C6_Witness ==
    /\ Evaluated("HardRequirement", "Full")
    /\ last.ret.kind = "Some"
    /\ state = "Full"

\* C7: under an effective level of HardRequirement, a step whose own
\* evaluation reports Partial or No merges Dummy into the accumulated state
\* and returns the error the evaluation carried.
C7_HardRequirementFails ==
    \A inner \in {"Partial", "No"} :
        Evaluated("HardRequirement", inner) =>
            /\ last.merge = "Dummy"
            /\ state = "Dummy"
            /\ last.ret = RetErr(SelfError(inner))

\* C7 witness: a partially supported object under HardRequirement, on a chain
\* that was Full until then.
C7_Witness ==
    /\ Evaluated("HardRequirement", "Partial")
    /\ last.before = "Full"
    /\ last.ret.kind = "Err"

\* C8: under an effective level of SoftRequirement, a step whose own
\* evaluation reports Partial or No merges Dummy into the accumulated state
\* and returns neither a value nor an error.
C8_SoftRequirementDrops ==
    \A inner \in {"Partial", "No"} :
        Evaluated("SoftRequirement", inner) =>
            /\ last.merge = "Dummy"
            /\ state = "Dummy"
            /\ last.ret = RetNone

\* C8 witness: an unsupported object under SoftRequirement, on a chain that
\* was Full until then.
C8_Witness ==
    /\ Evaluated("SoftRequirement", "No")
    /\ last.before = "Full"
    /\ last.ret.kind = "None"

\* C9: under an effective level of BestEffort, a Partial evaluation merges
\* Partial and returns the adjusted value, a No evaluation merges No and
\* returns no value; neither returns an error.
C9_BestEffortNeverFails ==
    /\ Evaluated("BestEffort", "Partial") =>
            /\ last.merge = "Partial"
            /\ state = update(last.before, "Partial")
            /\ last.ret = RetSome(SelfValue(TRUE))
    /\ Evaluated("BestEffort", "No") =>
            /\ last.merge = "No"
            /\ state = update(last.before, "No")
            /\ last.ret = RetNone

\* C9 witness: a partially supported object under BestEffort, returned
\* adjusted.
C9_Witness ==
    /\ Evaluated("BestEffort", "Partial")
    /\ last.ret.kind = "Some"
    /\ last.ret.val.adjusted
    /\ state = "Partial"

\* C10 as stated: a step that evaluated its object returns an error only when
\* the kernel does not support the request (the evaluation reports Partial or
\* No) and the effective level is HardRequirement; under BestEffort or
\* SoftRequirement it returns none.
C10_ErrorOnlyUnderHardRequirement ==
    (last.op = "try_compat" /\ last.inner # "NotEvaluated" /\ last.ret.kind = "Err") =>
        /\ last.eff = "HardRequirement"
        /\ last.inner \in {"Partial", "No"}

LevelOrder ==
    {<<a, a>> : a \in CompatLevel} \cup
    {<<"BestEffort", "SoftRequirement">>, <<"BestEffort", "HardRequirement">>,
     <<"SoftRequirement", "HardRequirement">>}

\* The strictest level of a set of levels.
Strictest(S) == CHOOSE m \in S : \A x \in S : <<x, m>> \in LevelOrder

\* C12: the effective level of a step is the maximum of the parent level
\* (BestEffort when absent) and the object's own level when it is set.
C12_EffectiveLevelIsMax ==
    last.op = "try_compat" =>
        last.eff = Strictest({IF level = None THEN "BestEffort" ELSE level} \cup
                             (IF last.own = None THEN {} ELSE {last.own}))

\* C12 witness: an object set to BestEffort under a HardRequirement parent is
\* negotiated under HardRequirement.
C12_Witness ==
    /\ last.op = "try_compat"
    /\ level = "HardRequirement"
    /\ last.own = "BestEffort"
    /\ last.eff = "HardRequirement"

\* C13 as stated: after a step negotiated under SoftRequirement turned out
\* Partial, a later step negotiated under HardRequirement yields no usable
\* value, even when it is itself fully supported.
C13_LaterHardStepYieldsNothing ==
    (dropped /\ last.op = "try_compat" /\ last.eff = "HardRequirement") =>
        last.ret.kind # "Some"

\* C13 amended: after a step negotiated under SoftRequirement turned out
\* Partial, the accumulated state is Dummy after every later step negotiated
\* under HardRequirement, and such a step yields a value exactly when its
\* object evaluates itself to Full.
C13_LaterHardStepKeepsDummy ==
    (dropped /\ last.op = "try_compat" /\ last.eff = "HardRequirement") =>
        /\ state = "Dummy"
        /\ last.pre = "Dummy"
        /\ (last.ret.kind = "Some" <=> last.inner = "Full")

\* C13 witness: a fully supported step under HardRequirement after the drop:
\* it returns its value and the state stays Dummy.
C13_Witness ==
    /\ dropped
    /\ Evaluated("HardRequirement", "Full")
    /\ last.ret.kind = "Some"
    /\ state = "Dummy"

\* The versions this crate knows, in order.
KnownVersions == <<"V1", "V2", "V3">>

\* C14: ABI-from-integer gives Unsupported for every integer <= 0, its own
\* ABI value for each known version number, and the greatest known ABI value
\* for every greater integer.
C14_AbiFromInteger ==
    last.op = "new_current" =>
        /\ last.value <= 0 => abi = "Unsupported"
        /\ last.value \in 1..Len(KnownVersions) => abi = KnownVersions[last.value]
        /\ last.value > Len(KnownVersions) => abi = KnownVersions[Len(KnownVersions)]

\* C14 witness: the version after the greatest known one, read back by a
\* query, is clamped to V3.
C14_Witness ==
    /\ last.op = "new_current"
    /\ last.value = Len(KnownVersions) + 1
    /\ abi = "V3"

(* ----------------------- claims on the builder chain -------------------- *)

\* The steps of a history that ended in RuntimeError.
RuntimeSteps(hist) == {i \in 1..Len(hist) : hist[i].tag = "RuntimeError"}

\* The error of the most recent step of a history that ended in RuntimeError.
SavedError(hist) ==
    IF RuntimeSteps(hist) = {} THEN NoError
    ELSE hist[CHOOSE i \in RuntimeSteps(hist) :
                  \A j \in RuntimeSteps(hist) : j <= i].err

\* restrict_self() got as far as the enforcement syscall.
PrivsPassed == ~chain.build.data.no_new_privs \/ done.privs.ret = 0

\* C15: restrict_self maps the final chain to its outcome: with a payload,
\* FullyRestricted or PartiallyRestricted(saved error) by the chain status when
\* the no-new-privileges step (if enabled) and the enforcement syscall succeed,
\* Unrestricted(error) without attempting enforcement when no-new-privileges
\* fails, Unrestricted(error) when enforcement fails; without a payload,
\* Unrestricted(saved error) and no syscall.
C15_RestrictSelfMapping ==
    done.op = "restrict_self" =>
        IF chain.build.some
        THEN /\ (PrivsPassed /\ done.enforced.ret = 0 /\ chain.build.status = "Full")
                    => done.status = FullyRestricted
             /\ (PrivsPassed /\ done.enforced.ret = 0 /\ chain.build.status = "Partial")
                    => done.status = PartiallyRestricted(SavedError(steps))
             /\ ~PrivsPassed
                    => /\ done.status = Unrestricted(done.privs.errno)
                       /\ "landlock_restrict_self" \notin Range(done.calls)
             /\ (PrivsPassed /\ done.enforced.ret # 0)
                    => done.status = Unrestricted(done.enforced.errno)
        ELSE /\ done.status = Unrestricted(SavedError(steps))
             /\ Range(done.calls) \cap {"prctl", "landlock_restrict_self"} = {}

\* restrict_self() on a chain whose prctl() failed while the enforcement
\* syscall would have succeeded.
C15_Witness ==
    /\ done.op = "restrict_self"
    /\ chain.build.some
    /\ chain.build.data.no_new_privs
    /\ done.privs.ret # 0
    /\ done.enforced.ret = 0

\* Every build step of the chain so far fully succeeded.
AllFullSuccess == \A i \in 1..Len(steps) : steps[i].tag = "FullSuccess"

\* C16: on a chain whose build steps all fully succeed the chain status stays
\* Full, into_result(PartiallyCompatible) succeeds after every step, on the
\* chain and on the rule in the making, and restrict_self with a successful
\* enforcement call returns FullyRestricted.
C16_FullChainRoundTrip ==
    AllFullSuccess =>
        /\ chain.build.some /\ chain.build.status = "Full"
        /\ into_result(chain, "PartiallyCompatible").ok
        /\ rule # <<>> =>
               /\ rule[1].build.some /\ rule[1].build.status = "Full"
               /\ into_result(rule[1], "PartiallyCompatible").ok
        /\ (done.op \in {"into_result", "rule_into_result"}
                /\ done.arg = "PartiallyCompatible") => done.ok
        /\ (done.op = "restrict_self" /\ PrivsPassed /\ done.enforced.ret = 0)
               => done.status = FullyRestricted

\* A chain of MaxSteps fully successful steps that restrict_self enforced.
C16_Witness ==
    /\ AllFullSuccess
    /\ Len(steps) = MaxSteps
    /\ done.op = "restrict_self"
    /\ done.enforced.ret = 0
    /\ done.status = FullyRestricted

\* C17: on a kernel that reports ABI Unsupported, into_result(Incompatible)
\* after declaring the handled access rights is Ok, restrict_self returns
\* Unrestricted(None), and collapsing that outcome yields success.
C17_UnsupportedKernelIsSilent ==
    abi = "Unsupported" =>
        /\ (done.op = "into_result" /\ done.arg = "Incompatible"
                /\ kind = "RulesetAttr") => done.ok
        /\ done.op = "restrict_self" => done.status = Unrestricted(NoError)
        /\ done.op = "RestrictionStatus_into_result" => done.ok

\* The last call was an add_rule whose syscall was made and failed.
AddRuleFailed ==
    /\ done.op = "add_rule"
    /\ done.calls = <<"landlock_add_rule">>
    /\ done.reply.ret # 0

\* A chain with its payload, one step of which ended in RuntimeError (an
\* add_rule, as a failing create() leaves no payload) and all others fully
\* succeeded.
OneRuleRefused ==
    /\ chain.build.some
    /\ \E i \in 1..Len(steps) :
           /\ steps[i].tag = "RuntimeError"
           /\ \A j \in (1..Len(steps)) \ {i} : steps[j].tag = "FullSuccess"

\* C18: an add_rule whose syscall fails on an otherwise fully compatible
\* chain records RuntimeError, and restrict_self on that chain returns
\* Unrestricted(Some(error)).
C18_RefusedRuleUnrestricted ==
    /\ AddRuleFailed => chain.last.tag = "RuntimeError"
    /\ (done.op = "restrict_self" /\ OneRuleRefused)
           => (done.status.tag = "Unrestricted" /\ done.status.err # NoError)

\* C18, amended: an add_rule whose syscall fails records RuntimeError with the
\* syscall's error and leaves the payload with status Partial; restrict_self
\* on that chain returns PartiallyRestricted(Some(that error)) when the
\* no-new-privileges step (if enabled) and the enforcement syscall succeed,
\* and Unrestricted(Some(error of the failing syscall)) otherwise.
C18_RefusedRulePartiallyRestricted ==
    /\ AddRuleFailed =>
           /\ chain.last = RuntimeError(done.reply.errno)
           /\ chain.build.some /\ chain.build.status = "Partial"
    /\ (done.op = "restrict_self" /\ OneRuleRefused) =>
           /\ (PrivsPassed /\ done.enforced.ret = 0)
                  => done.status = PartiallyRestricted(SavedError(steps))
           /\ ~PrivsPassed => done.status = Unrestricted(done.privs.errno)
           /\ (PrivsPassed /\ done.enforced.ret # 0)
                  => done.status = Unrestricted(done.enforced.errno)
           /\ done.status.err # NoError

\* restrict_self enforced a chain one rule of which had a closed parent_fd.
C18_Witness ==
    /\ done.op = "restrict_self"
    /\ OneRuleRefused
    /\ done.status = PartiallyRestricted("EBADF")

\* The status the most recent build step of the chain ended in.
LastStep == steps[Len(steps)]

C20_LastErrorRetained ==
    /\ get_last_error(chain) = SavedError(steps)
    /\ get_last_error(chain) = NoError <=> RuntimeSteps(steps) = {}

\* Two steps ended in RuntimeError with different errors, and a step without
\* error followed.
C20_Witness ==
    /\ \E i, j \in RuntimeSteps(steps) : i < j /\ steps[i].err # steps[j].err
    /\ LastStep.tag = "FullSuccess"
    /\ get_last_error(chain) = "EBADFD"

(* ------------------ claims on the chain's methods ----------------------- *)

\* The thresholds under which into_result fails for a last call status.
FailingThresholds(tag) ==
    IF tag = "RuntimeError" THEN ErrorThreshold
    ELSE IF tag \in {"Unsupported", "Fake"}
    THEN {"Incompatible", "PartiallyCompatible"}
    ELSE IF tag = "PartialSuccess" THEN {"PartiallyCompatible"}
    ELSE {}

\* C21: into_result(threshold) depends only on the last call status: it fails
\* for RuntimeError under every threshold, for Unsupported or Fake exactly
\* under Incompatible and PartiallyCompatible, for PartialSuccess exactly
\* under PartiallyCompatible, for FullSuccess never, and when it does not
\* fail it returns the chain itself.
C21_IntoResultByLastCall ==
    done.op = "into_result" =>
        /\ ~done.ok <=> done.arg \in FailingThresholds(chain.last.tag)
        /\ done.ok => (kind # "none" /\ into_result(chain, done.arg).value = chain)
        /\ \A prev \in Errnos \cup {NoError}, build \in Builds(chain.build.data) :
               /\ into_result(CompatObject(chain.last, prev, build), done.arg).ok
                      = done.ok
               /\ into_result(CompatObject(chain.last, prev, build), done.arg).err
                      = done.err

\* into_result(Incompatible) on a chain whose last call was a partial success,
\* with a saved error and no payload.
C21_Witness ==
    /\ done.op = "into_result"
    /\ done.arg = "Incompatible"
    /\ chain.last = PartialSuccess
    /\ chain.prev_error # NoError
    /\ ~chain.build.some
    /\ done.ok

\* C22: RestrictionStatus::into_result yields success for FullyRestricted,
\* for Unrestricted without error and for PartiallyRestricted with or without
\* a saved error; it yields an error only for Unrestricted carrying an error.
C22_OnlyUnrestrictedErrorFails ==
    done.op = "RestrictionStatus_into_result" =>
        (~done.ok <=> (done.status.tag = "Unrestricted"
                           /\ done.status.err # NoError))

\* C22, amended: RestrictionStatus::into_result yields success for
\* FullyRestricted and for PartiallyRestricted or Unrestricted without error;
\* it yields the carried error for PartiallyRestricted and for Unrestricted
\* carrying one.
C22_CarriedErrorFails ==
    done.op = "RestrictionStatus_into_result" =>
        /\ ~done.ok <=> (done.status.tag \in {"PartiallyRestricted", "Unrestricted"}
                             /\ done.status.err # NoError)
        /\ done.err = done.status.err

\* The conversion of a PartiallyRestricted that carries an error.
C22_Witness ==
    /\ done.op = "RestrictionStatus_into_result"
    /\ done.status.tag = "PartiallyRestricted"
    /\ done.status.err # NoError
    /\ ~done.ok

\* A build method of the chain is called.
ChainStep ==
    \/ \E access \in AccessFs : call_handle_fs(access)
    \/ \E created \in CreateReplies(abi) : call_create(created)
    \/ \E no_new_privs \in BOOLEAN : call_set_no_new_privs(no_new_privs)
    \/ \E added \in AddRuleReplies(rule) : call_add_rule(added)

\* The build method of the rule in the making is called.
RuleStep == \E allowed \in AccessFs : call_allow_access(allowed)

\* C23: once the payload is absent, every build method (handle_fs, create,
\* set_no_new_privs, add_rule on the chain, allow_access on the rule) records
\* Fake, performs no syscall and leaves the payload absent.
C23_AbsentPayloadAbsorbing ==
    [][/\ (ChainStep /\ ~chain.build.some) =>
              /\ chain'.last = Fake
              /\ ~chain'.build.some
              /\ done'.calls = <<>>
       /\ (RuleStep /\ ~rule[1].build.some) =>
              /\ rule'[1].last = Fake
              /\ ~rule'[1].build.some
              /\ done'.calls = <<>>]_vars

\* MaxAnySteps build methods in a row on a chain without payload, the last
\* one an add_rule.
C23_Witness ==
    /\ ~chain.build.some
    /\ Len(steps) = MaxAnySteps
    /\ \A i \in 1..Len(steps) : steps[i] = Fake
    /\ done.op = "add_rule"
    /\ done.calls = <<>>

\* A build method of the chain is called on a present payload and does not
\* end in FullSuccess.
DowngradingStep ==
    ChainStep /\ chain.build.some /\ chain'.last.tag # "FullSuccess"

\* C24: a step on a present payload whose last-call status is not FullSuccess
\* sets the chain status to Partial, and no later step, create() included,
\* brings it back to Full.
C24_StatusMonotone ==
    [][/\ DowngradingStep =>
              (chain'.build.some /\ chain'.build.status = "Partial")
       /\ (ChainStep /\ chain.build.some /\ chain.build.status = "Partial") =>
              ~(chain'.build.some /\ chain'.build.status = "Full")]_vars

\* C24, amended: a step on a present payload whose last-call status is not
\* FullSuccess sets the chain status to Partial, except a create() whose
\* syscall fails, which leaves the chain without payload and so without
\* status; no later step, create() included, brings a Partial or an absent
\* status back to Full.
C24_StatusMonotoneOrAbsent ==
    [][/\ DowngradingStep =>
              IF chain'.build.some
              THEN chain'.build.status = "Partial"
              ELSE done'.op = "create" /\ chain'.last.tag = "RuntimeError"
       /\ (ChainStep /\ (~chain.build.some \/ chain.build.status = "Partial")) =>
              ~(chain'.build.some /\ chain'.build.status = "Full")]_vars

\* An add_rule with a rule without payload ended in Unsupported, a later step
\* fully succeeded, and the chain status is still Partial.
C24_Witness ==
    /\ Len(steps) = 2
    /\ steps[1] = Unsupported
    /\ steps[2] = FullSuccess
    /\ chain.build.some
    /\ chain.build.status = "Partial"

\* C25: into_result called again with the same threshold, no build step in
\* between, gives the same result, and a successful conversion leaves the
\* payload, chain status, last-call status and saved error unchanged.
C25_IntoResultIdempotent ==
    [][/\ (done.op = "into_result" /\ call_into_result(done.arg)) =>
              (done'.ok = done.ok /\ done'.err = done.err)
       /\ \A threshold \in ErrorThreshold :
              (call_into_result(threshold) /\ done'.ok) =>
                  (chain' = chain /\ kind' = kind)]_vars

\* into_result(Runtime) gave Ok on a chain whose last call was Fake and that
\* holds a saved error.
C25_Witness ==
    /\ done.op = "into_result"
    /\ done.arg = "Runtime"
    /\ done.ok
    /\ chain.last = Fake
    /\ chain.prev_error # NoError

\* The chain holds, or held when it ended, a Ruleset with the fd that
\* landlock_create_ruleset() returned.
HoldsHandle == chain.build.some /\ "fd" \in DOMAIN chain.build.data

\* How many times the last call closed the fd.
Closes == Cardinality({i \in 1..Len(done.calls) : done.calls[i] = "close"})

\* C26: the fd of a successful ruleset creation is closed exactly once, after
\* its last use, when the chain ends (restrict_self succeeding or failing,
\* no-new-privileges failing, into_result returning an error), and never
\* while the chain goes on; nothing is closed when creation failed.
C26_HandleClosedOnce ==
    /\ kind # "none" => Closes = 0
    /\ kind = "none" => Closes = (IF HoldsHandle THEN 1 ELSE 0)
    /\ Closes = 1 => done.calls[Len(done.calls)] = "close"
    /\ (done.op = "create" /\ done.reply.ret < 0) => (~HoldsHandle /\ Closes = 0)

\* The chain was abandoned with its Ruleset when into_result returned an error.
C26_Witness ==
    /\ done.op = "into_result"
    /\ ~done.ok
    /\ HoldsHandle
    /\ done.calls = <<"close">>

(* --------------------- further claims on negotiation -------------------- *)

\* What a Compatibility is made of.
compat == <<abi, level, state>>

\* The Compatibility that set_compatibility(l) leaves: the own level becomes
\* l, the rest stays.
AfterSetCompatibility(l) == <<abi, l, state>>

\* C27: set_best_effort(true) leaves the same compatibility configuration as
\* set_compatibility(BestEffort), set_best_effort(false) the same as
\* set_compatibility(HardRequirement); the own level becomes the given one,
\* whatever it was before.
C27_SetBestEffortIsSetCompatibility ==
    [][/\ \A l \in CompatLevel :
              set_compatibility(l) => compat' = AfterSetCompatibility(l)
       /\ set_best_effort(TRUE) => compat' = AfterSetCompatibility("BestEffort")
       /\ set_best_effort(FALSE)
              => compat' = AfterSetCompatibility("HardRequirement")]_vars

\* set_best_effort(false) was called.
C27_Witness ==
    /\ last.op = "set_best_effort"
    /\ level = "HardRequirement"

\* The last child that the last negotiation went through.
LastKid == last.kids[Len(last.kids)]

\* The last negotiation was that of an object with a child.
NegotiatedParent == last.op = "try_compat" /\ last.nchildren > 0

\* The last negotiation left the object itself aside: nothing evaluated,
\* nothing merged after its children.
SelfLeftAside ==
    /\ last.inner = "NotEvaluated"
    /\ last.merge = "none"
    /\ state = last.before

\* C28: try_compat negotiates the children before the object itself; when the
\* children yield no value it returns no value, when they yield an error it
\* returns that error, in both cases without evaluating the object and
\* without merging anything further; otherwise the object's own value is
\* merged after its children's.
C28_ChildrenFirstShortCircuit ==
    NegotiatedParent =>
        /\ Len(last.kids) >= 1
        /\ last.before = update(last.pre, merges[Len(merges) - Len(last.kids)
                                                 + (IF last.merge = "none" THEN 1 ELSE 0)])
        /\ LastKid.kind = "None" => (last.ret = RetNone /\ SelfLeftAside)
        /\ LastKid.kind = "Err" =>
               (last.ret.kind = "Err" /\ last.ret.err.at = "child" /\ SelfLeftAside)
        /\ LastKid.kind = "Some" =>
               /\ last.inner # "NotEvaluated"
               /\ Len(merges) >= 2
               /\ merges[Len(merges)] = last.merge
               /\ state = update(last.before, last.merge)

\* A child that is not supported yields no value under BestEffort: the state
\* from Init is No and the parent was not evaluated.
C28_Witness ==
    /\ NegotiatedParent
    /\ LastKid.kind = "None"
    /\ LastKid.inner = "No"
    /\ last.pre = "Init"
    /\ state = "No"
    /\ last.ret = RetNone

\* Level b is at least as strict as level a.
AtLeast(a, b) == <<a, b>> \in LevelOrder

\* C29: every child is negotiated with its parent's effective level as parent
\* level, so each object's effective level is at least as strict as that of
\* every ancestor (the Compatibility's level, then the parent's) and as its
\* own setting.
C29_LevelInheritance ==
    last.op = "try_compat" =>
        /\ AtLeast(CompatLevel_from(level), last.eff)
        /\ last.own # None => AtLeast(last.own, last.eff)
        /\ \A i \in 1..Len(last.kids) :
               /\ last.kids[i].parent = last.eff
               /\ AtLeast(last.eff, last.kids[i].eff)
               /\ AtLeast(CompatLevel_from(level), last.kids[i].eff)
               /\ last.kids[i].own # None
                      => AtLeast(last.kids[i].own, last.kids[i].eff)

\* A child set to BestEffort under a parent set to SoftRequirement under a
\* Compatibility without level is negotiated under SoftRequirement.
C29_Witness ==
    /\ NegotiatedParent
    /\ level = None
    /\ last.own = "SoftRequirement"
    /\ LastKid.own = "BestEffort"
    /\ LastKid.eff = "SoftRequirement"

\* C30: whenever try_compat returns an error the accumulated state is Dummy
\* afterwards, whether the error is the object's own, the HardRequirement
\* conversion of Partial or No, or that of a child; whenever it returns no
\* value without error the accumulated state is not Full.
C30_FailClosed ==
    last.op = "try_compat" =>
        /\ last.ret.kind = "Err" => state = "Dummy"
        /\ last.ret.kind = "None" => state # "Full"

\* After fully supported steps, the error of a child under HardRequirement
\* left the state Dummy.
C30_Witness ==
    /\ NegotiatedParent
    /\ last.pre = "Full"
    /\ last.ret.kind = "Err"
    /\ last.ret.err.at = "child"
    /\ last.eff = "HardRequirement"
    /\ LastKid.inner = "Partial"
    /\ state = "Dummy"

\* C31: a Compatibility built from ABI Unsupported starts in state No, from
\* any other ABI in Init, with no own level set; from the No start no
\* sequence of merges makes the accumulated state Full or Init.
C31_UnsupportedNeverFull ==
    /\ \A a \in ABI :
           /\ Compatibility_from(a).abi = a
           /\ Compatibility_from(a).level = None
           /\ Compatibility_from(a).state = (IF a = "Unsupported" THEN "No" ELSE "Init")
    /\ start = (IF abi = "Unsupported" THEN "No" ELSE "Init")
    /\ last.op = "none" => (level = None /\ state = start)
    /\ abi = "Unsupported" =>
           /\ state \notin {"Full", "Init"}
           /\ seen \cap {"Full", "Init"} = {}

\* On a kernel without support, MaxMerges fully supported steps were merged
\* and the state is Partial.
C31_Witness ==
    /\ abi = "Unsupported"
    /\ start = "No"
    /\ Len(merges) = MaxMerges
    /\ \A i \in 1..Len(merges) : merges[i] = "Full"
    /\ state = "Partial"

====
